---- MODULE Spec2Model ----
(***************************************************************************)
(* ros_gz_sim/launch/ros_gz_sim.launch.py                                  *)
(*                                                                         *)
(* generate_launch_description() builds a LaunchDescription: eight         *)
(* DeclareLaunchArgument actions and two IncludeLaunchDescription actions  *)
(* whose launch_arguments are LaunchConfiguration references.  The model   *)
(* runs the builder statement by statement and then lets the launch        *)
(* service visit the returned actions in list order, so that the values    *)
(* each inclusion receives can be compared with the caller's name:=value   *)
(* overrides.                                                              *)
(***************************************************************************)
EXTENDS Integers, Sequences, FiniteSets, TLC

VARIABLES
    argv,                    \* the caller's name:=value overrides
    pc,                      \* the block of statements being executed
    i,                       \* the statement within the block, the action visited
    locals,                  \* the local variables of generate_launch_description
    result,                  \* the list of actions of the returned description
    launch_configurations,   \* LaunchContext.launch_configurations
    received                 \* per included package, the (key, value) pairs it got

vars == <<argv, pc, i, locals, result, launch_configurations, received>>

(* ------------------------------ bounds -------------------------------- *)

\* at most this many name:=value overrides on one command line
MaxOverrides == 2
\* how many of the strings of ValuePool a caller may supply
NumValues == 6

ValuePool == <<"True", "robot1", "", "maybe", "world.sdf", "<sdf/>", "warn", "debug">>

Values == {ValuePool[k] : k \in 1..NumValues}

(* --------------------------- python values ---------------------------- *)

Str(s) == [kind |-> "str", arg |-> s]
TextSubstitution(s) == [kind |-> "TextSubstitution", arg |-> s]
LaunchConfiguration(n) == [kind |-> "LaunchConfiguration", arg |-> n]

\* launch.utilities.normalize_to_list_of_substitutions: a str becomes one
\* TextSubstitution, a Substitution becomes a list of one
Normalize(x) ==
    IF x.kind = "str" THEN <<TextSubstitution(x.arg)>> ELSE <<x>>

\* Substitution.perform(context); a LaunchConfiguration without a default
\* raises SubstitutionFailure when the name is not set
CanPerform(sub, lc) ==
    sub.kind = "LaunchConfiguration" => sub.arg \in DOMAIN lc

Perform(sub, lc) ==
    IF sub.kind = "LaunchConfiguration" THEN lc[sub.arg] ELSE sub.arg

RECURSIVE PerformSubstitutions(_, _)
PerformSubstitutions(subs, lc) ==
    IF subs = <<>> THEN ""
    ELSE Perform(Head(subs), lc) \o PerformSubstitutions(Tail(subs), lc)

CanPerformAll(subs, lc) == \A k \in 1..Len(subs) : CanPerform(subs[k], lc)

(* ------------------- the statements of the builder -------------------- *)

\* bug: line 35 misspells the name of the configuration
ConfigStmtsMisspelt ==
    << <<"config_file", "config_file">>,
       <<"container_name", "container_name">>,
       <<"namespace", "namespace">>,
       <<"use_composition", "use_composition">>,
       <<"use_respawn", "use_respawn">>,
       <<"log_level", "log_level">>,
       <<"world_sdf_file", "world_sdf_file">>,
       <<"world_sdf_string", "world_sdf_sting">> >>

\* lines 27-35: local variable, LaunchConfiguration name
ConfigStmts ==
    << <<"config_file", "config_file">>,
       <<"container_name", "container_name">>,
       <<"namespace", "namespace">>,
       <<"use_composition", "use_composition">>,
       <<"use_respawn", "use_respawn">>,
       <<"log_level", "log_level">>,
       <<"world_sdf_file", "world_sdf_file">>,
       <<"world_sdf_string", "world_sdf_string">> >>

\* bug: line 62 gives log_level another default
DeclareStmtsWrongDefault ==
    << <<"declare_config_file_cmd", "config_file", Str("")>>,
       <<"declare_container_name_cmd", "container_name", Str("ros_gz_container")>>,
       <<"declare_namespace_cmd", "namespace", Str("")>>,
       <<"declare_use_composition_cmd", "use_composition", Str("False")>>,
       <<"declare_use_respawn_cmd", "use_respawn", Str("False")>>,
       <<"declare_log_level_cmd", "log_level", Str("warn")>>,
       <<"declare_world_sdf_file_cmd", "world_sdf_file", TextSubstitution("")>>,
       <<"declare_world_sdf_string_cmd", "world_sdf_string", TextSubstitution("")>> >>

\* bug: line 71 is a copy of line 66, world_sdf_file is declared twice
DeclareStmtsDuplicateName ==
    << <<"declare_config_file_cmd", "config_file", Str("")>>,
       <<"declare_container_name_cmd", "container_name", Str("ros_gz_container")>>,
       <<"declare_namespace_cmd", "namespace", Str("")>>,
       <<"declare_use_composition_cmd", "use_composition", Str("False")>>,
       <<"declare_use_respawn_cmd", "use_respawn", Str("False")>>,
       <<"declare_log_level_cmd", "log_level", Str("info")>>,
       <<"declare_world_sdf_file_cmd", "world_sdf_file", TextSubstitution("")>>,
       <<"declare_world_sdf_string_cmd", "world_sdf_file", TextSubstitution("")>> >>

\* lines 37-73: local variable, argument name, default_value
DeclareStmts ==
    << <<"declare_config_file_cmd", "config_file", Str("")>>,
       <<"declare_container_name_cmd", "container_name", Str("ros_gz_container")>>,
       <<"declare_namespace_cmd", "namespace", Str("")>>,
       <<"declare_use_composition_cmd", "use_composition", Str("False")>>,
       <<"declare_use_respawn_cmd", "use_respawn", Str("False")>>,
       <<"declare_log_level_cmd", "log_level", Str("info")>>,
       <<"declare_world_sdf_file_cmd", "world_sdf_file", TextSubstitution("")>>,
       <<"declare_world_sdf_string_cmd", "world_sdf_string", TextSubstitution("")>> >>

\* bug: lines 81-82 pass each other's variable
BridgeArgsCrossWired ==
    << <<"config_file", "config_file">>,
       <<"container_name", "namespace">>,
       <<"namespace", "container_name">>,
       <<"use_composition", "use_composition">>,
       <<"use_respawn", "use_respawn">>,
       <<"log_level", "log_level">> >>

\* bug: line 85 is missing
BridgeArgsNoLogLevel ==
    << <<"config_file", "config_file">>,
       <<"container_name", "container_name">>,
       <<"namespace", "namespace">>,
       <<"use_composition", "use_composition">>,
       <<"use_respawn", "use_respawn">> >>

\* lines 80-85: key, local variable holding the value
BridgeArgs ==
    << <<"config_file", "config_file">>,
       <<"container_name", "container_name">>,
       <<"namespace", "namespace">>,
       <<"use_composition", "use_composition">>,
       <<"use_respawn", "use_respawn">>,
       <<"log_level", "log_level">> >>

\* bug: line 94 passes use_respawn
ServerArgsRespawnForComposition ==
    << <<"world_sdf_file", "world_sdf_file">>,
       <<"world_sdf_string", "world_sdf_string">>,
       <<"use_composition", "use_respawn">> >>

\* bug: line 93 passes world_sdf_file
ServerArgsStringFromFile ==
    << <<"world_sdf_file", "world_sdf_file">>,
       <<"world_sdf_string", "world_sdf_file">>,
       <<"use_composition", "use_composition">> >>

\* bug: line 92 passes config_file
ServerArgsFileFromConfig ==
    << <<"world_sdf_file", "config_file">>,
       <<"world_sdf_string", "world_sdf_string">>,
       <<"use_composition", "use_composition">> >>

\* lines 92-94
ServerArgs ==
    << <<"world_sdf_file", "world_sdf_file">>,
       <<"world_sdf_string", "world_sdf_string">>,
       <<"use_composition", "use_composition">> >>

\* lines 76-79 and 88-91: FindPackageShare package, file under launch/
BridgeSource == <<"ros_gz_bridge", "ros_gz_bridge.launch.py">>
ServerSource == <<"ros_gz_sim", "gz_server.launch.py">>

\* bug: the bridge is added before the world arguments are declared
AddOrderEarlyBridge ==
    <<"declare_config_file_cmd",
      "declare_container_name_cmd",
      "declare_namespace_cmd",
      "declare_use_composition_cmd",
      "declare_use_respawn_cmd",
      "declare_log_level_cmd",
      "bridge_description",
      "declare_world_sdf_file_cmd",
      "declare_world_sdf_string_cmd",
      "gzserver_description">>

\* bug: lines 109 and 110 are exchanged
AddOrderServerFirst ==
    <<"declare_config_file_cmd",
      "declare_container_name_cmd",
      "declare_namespace_cmd",
      "declare_use_composition_cmd",
      "declare_use_respawn_cmd",
      "declare_log_level_cmd",
      "declare_world_sdf_file_cmd",
      "declare_world_sdf_string_cmd",
      "gzserver_description",
      "bridge_description">>

\* lines 100-110: the local variables handed to ld.add_action, in order
AddOrder ==
    <<"declare_config_file_cmd",
      "declare_container_name_cmd",
      "declare_namespace_cmd",
      "declare_use_composition_cmd",
      "declare_use_respawn_cmd",
      "declare_log_level_cmd",
      "declare_world_sdf_file_cmd",
      "declare_world_sdf_string_cmd",
      "bridge_description",
      "gzserver_description">>

\* lines 37-73: the names a caller can override
ArgNames ==
    {"config_file", "container_name", "namespace", "use_composition",
     "use_respawn", "log_level", "world_sdf_file", "world_sdf_string"}

(* ------------------------------ objects ------------------------------- *)

DeclareLaunchArgument(name, default) ==
    [type |-> "DeclareLaunchArgument", name |-> name,
     default_value |-> Normalize(default)]

\* launch_arguments is a list of (key, value) pairs; the value is whatever
\* the named local variable holds
IncludeLaunchDescription(source, args, env) ==
    [type |-> "IncludeLaunchDescription", source |-> source,
     launch_arguments |->
        [k \in 1..Len(args) |-> <<args[k][1], Normalize(env[args[k][2]])>>]]

Bind(f, k, v) == [x \in DOMAIN f \cup {k} |-> IF x = k THEN v ELSE f[x]]

Empty == [x \in {} |-> ""]

(* ------------------------------- Init --------------------------------- *)

OverrideSets ==
    UNION {[S -> Values] : S \in {T \in SUBSET ArgNames : Cardinality(T) <= MaxOverrides}}

Init ==
    /\ argv \in OverrideSets
    /\ pc = "config"
    /\ i = 1
    /\ locals = Empty
    /\ result = <<>>
    /\ launch_configurations = Empty
    /\ received = Empty

(* ----------------------------- the builder ---------------------------- *)

\* lines 27-35
NewLaunchConfiguration ==
    /\ pc = "config"
    /\ locals' = Bind(locals, ConfigStmts[i][1], LaunchConfiguration(ConfigStmts[i][2]))
    /\ IF i < Len(ConfigStmts)
       THEN i' = i + 1 /\ pc' = pc
       ELSE i' = 1 /\ pc' = "declare"
    /\ UNCHANGED <<argv, result, launch_configurations, received>>

\* lines 37-73
NewDeclareLaunchArgument ==
    /\ pc = "declare"
    /\ locals' = Bind(locals, DeclareStmts[i][1],
                      DeclareLaunchArgument(DeclareStmts[i][2], DeclareStmts[i][3]))
    /\ IF i < Len(DeclareStmts)
       THEN i' = i + 1 /\ pc' = pc
       ELSE i' = 1 /\ pc' = "bridge"
    /\ UNCHANGED <<argv, result, launch_configurations, received>>

\* lines 75-85
NewBridgeDescription ==
    /\ pc = "bridge"
    /\ locals' = Bind(locals, "bridge_description",
                      IncludeLaunchDescription(BridgeSource, BridgeArgs, locals))
    /\ pc' = "server"
    /\ UNCHANGED <<argv, i, result, launch_configurations, received>>

\* lines 87-94
NewGzserverDescription ==
    /\ pc = "server"
    /\ locals' = Bind(locals, "gzserver_description",
                      IncludeLaunchDescription(ServerSource, ServerArgs, locals))
    /\ pc' = "ld"
    /\ UNCHANGED <<argv, i, result, launch_configurations, received>>

\* line 97
NewLaunchDescription ==
    /\ pc = "ld"
    /\ locals' = Bind(locals, "ld", <<>>)
    /\ pc' = "add"
    /\ i' = 1
    /\ UNCHANGED <<argv, result, launch_configurations, received>>

\* lines 100-110
AddAction ==
    /\ pc = "add"
    /\ locals' = [locals EXCEPT !["ld"] = Append(@, locals[AddOrder[i]])]
    /\ IF i < Len(AddOrder)
       THEN i' = i + 1 /\ pc' = pc
       ELSE i' = 1 /\ pc' = "return"
    /\ UNCHANGED <<argv, result, launch_configurations, received>>

\* line 112; the launch service starts from the caller's overrides
Return ==
    /\ pc = "return"
    /\ result' = locals["ld"]
    /\ launch_configurations' = argv
    /\ pc' = "visit"
    /\ i' = 1
    /\ UNCHANGED <<argv, locals, received>>

(* -------------------------- the launch service ------------------------ *)

\* DeclareLaunchArgument.execute: the default is used only when the caller
\* gave no value for the name
ExecuteDeclare(action, lc) ==
    IF action.name \in DOMAIN lc
    THEN lc
    ELSE Bind(lc, action.name, PerformSubstitutions(action.default_value, lc))

\* IncludeLaunchDescription.execute: one SetLaunchConfiguration per pair of
\* launch_arguments, executed in order; a value that cannot be performed
\* aborts the launch.  The result holds the configurations after the pairs,
\* the (key, value) pairs handed to the included description, and ok.
RECURSIVE SetLaunchConfigurations(_, _, _)
SetLaunchConfigurations(pairs, lc, got) ==
    IF pairs = <<>> THEN [lc |-> lc, got |-> got, ok |-> TRUE]
    ELSE LET key == Head(pairs)[1]
             subs == Head(pairs)[2]
         IN  IF ~CanPerformAll(subs, lc)
             THEN [lc |-> lc, got |-> got, ok |-> FALSE]
             ELSE LET v == PerformSubstitutions(subs, lc)
                  IN  SetLaunchConfigurations(Tail(pairs), Bind(lc, key, v),
                                              Append(got, <<key, v>>))

ExecuteInclude(action, lc) ==
    SetLaunchConfigurations(action.launch_arguments, lc, <<>>)

\* the launch service reaches a DeclareLaunchArgument of the description
VisitDeclare ==
    /\ pc = "visit"
    /\ i <= Len(result)
    /\ result[i].type = "DeclareLaunchArgument"
    /\ launch_configurations' = ExecuteDeclare(result[i], launch_configurations)
    /\ i' = i + 1
    /\ UNCHANGED <<argv, pc, locals, result, received>>

\* the launch service reaches an IncludeLaunchDescription; a
\* SubstitutionFailure inside it aborts the launch
VisitInclude ==
    /\ pc = "visit"
    /\ i <= Len(result)
    /\ result[i].type = "IncludeLaunchDescription"
    /\ LET r == ExecuteInclude(result[i], launch_configurations)
       IN  IF r.ok
           THEN /\ launch_configurations' = r.lc
                /\ received' = Bind(received, result[i].source[1], r.got)
                /\ i' = i + 1
                /\ pc' = pc
           ELSE /\ pc' = "error"
                /\ UNCHANGED <<i, launch_configurations, received>>
    /\ UNCHANGED <<argv, locals, result>>

\* every action of the description has been visited
Finish ==
    /\ pc = "visit"
    /\ i > Len(result)
    /\ pc' = "done"
    /\ UNCHANGED <<argv, i, locals, result, launch_configurations, received>>

Next ==
    \/ NewLaunchConfiguration
    \/ NewDeclareLaunchArgument
    \/ NewBridgeDescription
    \/ NewGzserverDescription
    \/ NewLaunchDescription
    \/ AddAction
    \/ Return
    \/ VisitDeclare
    \/ VisitInclude
    \/ Finish

Spec == Init /\ [][Next]_vars

(* ------------------- the launch service, end to end ------------------- *)

\* the visit of a whole description from the overrides o: what
\* VisitDeclare, VisitInclude and Finish do one action at a time
RECURSIVE VisitAll(_, _, _)
VisitAll(ld, lc, rcv) ==
    IF ld = <<>> THEN [status |-> "done", received |-> rcv]
    ELSE IF Head(ld).type = "DeclareLaunchArgument"
         THEN VisitAll(Tail(ld), ExecuteDeclare(Head(ld), lc), rcv)
         ELSE LET r == ExecuteInclude(Head(ld), lc)
              IN  IF r.ok
                  THEN VisitAll(Tail(ld), r.lc, Bind(rcv, Head(ld).source[1], r.got))
                  ELSE [status |-> "error", received |-> rcv]

Launch(ld, o) == VisitAll(ld, o, Empty)

(* ------------------------ vocabulary of the claims -------------------- *)

\* the table of section 6 of the specification
DocDefault ==
    [n \in ArgNames |->
        CASE n = "container_name" -> "ros_gz_container"
          [] n = "use_composition" -> "False"
          [] n = "use_respawn" -> "False"
          [] n = "log_level" -> "info"
          [] OTHER -> ""]

DocOrder ==
    <<"config_file", "container_name", "namespace", "use_composition",
      "use_respawn", "log_level", "world_sdf_file", "world_sdf_string">>

BridgeKeys == {"config_file", "container_name", "namespace", "use_composition",
               "use_respawn", "log_level"}
ServerKeys == {"world_sdf_file", "world_sdf_string", "use_composition"}
WorldKeys == {"world_sdf_file", "world_sdf_string"}

Bridge == "ros_gz_bridge"
Server == "ros_gz_sim"

\* the value the caller means the argument n to have
Supplied(o, n) == IF n \in DOMAIN o THEN o[n] ELSE DocDefault[n]

Returned == pc \in {"visit", "done", "error"}
Done == pc = "done"

IsDeclare(a) == a.type = "DeclareLaunchArgument"
IsInclude(a) == a.type = "IncludeLaunchDescription"

Declarations(ld) == {k \in 1..Len(ld) : IsDeclare(ld[k])}
Inclusions(ld) == {k \in 1..Len(ld) : IsInclude(ld[k])}
DeclarationsOf(ld, n) == {k \in Declarations(ld) : ld[k].name = n}
InclusionsOf(ld, pkg) == {k \in Inclusions(ld) : ld[k].source[1] = pkg}

KeysOf(pairs) == {pairs[k][1] : k \in 1..Len(pairs)}
ValuesOf(pairs, key) == {pairs[k][2] : k \in {j \in 1..Len(pairs) : pairs[j][1] = key}}
NoDuplicateKeys(pairs) == Cardinality(KeysOf(pairs)) = Len(pairs)

\* every pair an inclusion received carries the value the caller meant
ForwardedAsSupplied(pairs, o) ==
    \A k \in 1..Len(pairs) : pairs[k][2] = Supplied(o, pairs[k][1])

BothIncluded == {Bridge, Server} \subseteq DOMAIN received

\* a short name of an action of a description
Tag(a) == IF IsDeclare(a) THEN <<"declare", a.name>> ELSE <<"include", a.source[1]>>
Tags(ld) == [k \in 1..Len(ld) |-> Tag(ld[k])]

DocTags ==
    [k \in 1..Len(DocOrder) |-> <<"declare", DocOrder[k]>>]
        \o << <<"include", Bridge>>, <<"include", Server>> >>

IsPrefix(s, t) == Len(s) <= Len(t) /\ \A k \in 1..Len(s) : s[k] = t[k]

(* ------------------------------- claims ------------------------------- *)

\* C1: with no overrides, the returned description declares each of the
\* eight arguments with the default of section 6, and every value the two
\* inclusions receive is the default of its key.
C1_DefaultsWithoutOverrides ==
    argv = Empty =>
        /\ Returned =>
              \A n \in ArgNames :
                 /\ DeclarationsOf(result, n) # {}
                 /\ \A k \in DeclarationsOf(result, n) :
                       PerformSubstitutions(result[k].default_value, Empty) = DocDefault[n]
        /\ \A pkg \in DOMAIN received :
              \A k \in 1..Len(received[pkg]) :
                 received[pkg][k][2] = DocDefault[received[pkg][k][1]]
        /\ Done => BothIncluded

C1_Witness ==
    /\ Done
    /\ argv = Empty
    /\ BothIncluded
    /\ ValuesOf(received[Bridge], "container_name") = {"ros_gz_container"}
    /\ ValuesOf(received[Bridge], "log_level") = {"info"}
    /\ ValuesOf(received[Server], "use_composition") = {"False"}

\* C2: the bridge and the server receive the same use_composition, the
\* override when there is one and the default otherwise; in no state do
\* the two inclusions hold different values of it.
C2_SharedUseComposition ==
    /\ \A pkg \in DOMAIN received :
          ValuesOf(received[pkg], "use_composition")
             = {Supplied(argv, "use_composition")}
    /\ BothIncluded =>
          ValuesOf(received[Bridge], "use_composition")
             = ValuesOf(received[Server], "use_composition")
    /\ Done => BothIncluded

C2_Witness ==
    /\ Done
    /\ "use_composition" \in DOMAIN argv
    /\ argv["use_composition"] = "True"
    /\ "namespace" \in DOMAIN argv
    /\ argv["namespace"] = "robot1"
    /\ ValuesOf(received[Bridge], "namespace") = {"robot1"}
    /\ ValuesOf(received[Bridge], "use_composition") = {"True"}
    /\ ValuesOf(received[Server], "use_composition") = {"True"}

\* C3: the description holds one bridge inclusion with the six keys and one
\* server inclusion with the three keys, no key twice, each key bound to the
\* LaunchConfiguration of its own name; so each value received is the one
\* supplied for the argument of that name.
C3_BindingsExact ==
    /\ Returned =>
          /\ Inclusions(result) = InclusionsOf(result, Bridge) \cup InclusionsOf(result, Server)
          /\ Cardinality(InclusionsOf(result, Bridge)) = 1
          /\ Cardinality(InclusionsOf(result, Server)) = 1
          /\ \A j \in Inclusions(result) :
                LET pairs == result[j].launch_arguments
                IN  /\ KeysOf(pairs) = IF result[j].source[1] = Bridge
                                       THEN BridgeKeys ELSE ServerKeys
                    /\ NoDuplicateKeys(pairs)
                    /\ \A k \in 1..Len(pairs) :
                          pairs[k][2] = <<LaunchConfiguration(pairs[k][1])>>
    /\ \A pkg \in DOMAIN received : ForwardedAsSupplied(received[pkg], argv)
    /\ Done => /\ BothIncluded
               /\ KeysOf(received[Bridge]) = BridgeKeys
               /\ KeysOf(received[Server]) = ServerKeys

C3_Witness ==
    /\ Done
    /\ DOMAIN argv = {"container_name", "namespace"}
    /\ argv["container_name"] = "robot1"
    /\ argv["namespace"] = "maybe"
    /\ ValuesOf(received[Bridge], "container_name") = {"robot1"}
    /\ ValuesOf(received[Bridge], "namespace") = {"maybe"}

\* C4: the returned list has ten actions, eight declarations and two
\* inclusions, and every inclusion comes after every declaration.
C4_TenActionsInclusionsLast ==
    Returned =>
        /\ Len(result) = 10
        /\ Cardinality(Declarations(result)) = 8
        /\ Cardinality(Inclusions(result)) = 2
        /\ \A d \in Declarations(result) : \A j \in Inclusions(result) : d < j

C4_Witness ==
    /\ Done
    /\ Len(result) = 10
    /\ Cardinality(DOMAIN argv) = MaxOverrides

\* C5: the list is filled in one fixed order, whatever the overrides: the
\* eight declarations in the order of section 3, the bridge inclusion, the
\* server inclusion.
C5_FixedOrder ==
    /\ pc \in {"add", "return"} => IsPrefix(Tags(locals["ld"]), DocTags)
    /\ pc = "return" => Tags(locals["ld"]) = DocTags
    /\ Returned => Tags(result) = DocTags

C5_Witness ==
    /\ Done
    /\ Tag(result[Len(result) - 1]) = <<"include", Bridge>>
    /\ Tag(result[Len(result)]) = <<"include", Server>>
    /\ Tag(result[1]) = <<"declare", "config_file">>
    /\ argv # Empty

\* C6: with world_sdf_file the only override the server receives
\* world_sdf_string "", with world_sdf_string the only override it receives
\* world_sdf_file ""; each of the two is forwarded as supplied, whatever the
\* other is.
C6_WorldArgumentsIndependent ==
    Server \in DOMAIN received =>
        /\ DOMAIN argv = {"world_sdf_file"} =>
              /\ ValuesOf(received[Server], "world_sdf_string") = {""}
              /\ ValuesOf(received[Server], "world_sdf_file") = {argv["world_sdf_file"]}
        /\ DOMAIN argv = {"world_sdf_string"} =>
              /\ ValuesOf(received[Server], "world_sdf_file") = {""}
              /\ ValuesOf(received[Server], "world_sdf_string") = {argv["world_sdf_string"]}
        /\ \A w \in WorldKeys :
              ValuesOf(received[Server], w) = {Supplied(argv, w)}

C6_Witness ==
    /\ Done
    /\ DOMAIN argv = {"world_sdf_file"}
    /\ argv["world_sdf_file"] = "world.sdf"
    /\ ValuesOf(received[Server], "world_sdf_file") = {"world.sdf"}
    /\ ValuesOf(received[Server], "world_sdf_string") = {""}

\* C7 as stated: the bridge receives all eight arguments of the table, the
\* server the two world arguments and use_composition.
C7_BridgeReceivesFullTable ==
    Done => /\ KeysOf(received[Bridge]) = ArgNames
            /\ KeysOf(received[Server]) = WorldKeys \cup {"use_composition"}

\* C7: the bridge receives the six arguments of the table that are not
\* world arguments, the server the two world arguments and use_composition.
C7_BridgeReceivesAllButWorld ==
    /\ Bridge \in DOMAIN received =>
          KeysOf(received[Bridge]) = ArgNames \ WorldKeys
    /\ Server \in DOMAIN received =>
          KeysOf(received[Server]) = WorldKeys \cup {"use_composition"}
    /\ Done => BothIncluded

C7_Witness ==
    /\ Done
    /\ BothIncluded
    /\ "world_sdf_file" \in DOMAIN argv
    /\ "world_sdf_file" \notin KeysOf(received[Bridge])
    /\ "log_level" \in KeysOf(received[Bridge])
    /\ "world_sdf_file" \in KeysOf(received[Server])

\* C8: no combination of overrides ends in an error; the description has
\* its ten actions in the documented order, and each inclusion receives
\* every value as supplied, or the default; with no world override the
\* server receives "" for both world arguments.
C8_NoValidationNoError ==
    /\ pc # "error"
    /\ Returned => Len(result) = 10 /\ Tags(result) = DocTags
    /\ Done =>
          /\ BothIncluded
          /\ ForwardedAsSupplied(received[Bridge], argv)
          /\ ForwardedAsSupplied(received[Server], argv)
          /\ \A n \in DOMAIN argv :
                \A pkg \in {Bridge, Server} :
                   n \in KeysOf(received[pkg]) =>
                      ValuesOf(received[pkg], n) = {argv[n]}
          /\ DOMAIN argv \cap WorldKeys = {} =>
                /\ ValuesOf(received[Server], "world_sdf_file") = {""}
                /\ ValuesOf(received[Server], "world_sdf_string") = {""}

C8_Witness ==
    /\ Done
    /\ DOMAIN argv = WorldKeys
    /\ argv["world_sdf_file"] = "world.sdf"
    /\ argv["world_sdf_string"] = "<sdf/>"
    /\ ValuesOf(received[Server], "world_sdf_file") = {"world.sdf"}
    /\ ValuesOf(received[Server], "world_sdf_string") = {"<sdf/>"}

\* the names the launch_arguments of an inclusion refer to
Referenced(a) ==
    LET subs == UNION {{a.launch_arguments[k][2][j] :
                           j \in 1..Len(a.launch_arguments[k][2])} :
                       k \in 1..Len(a.launch_arguments)}
    IN  {sub.arg : sub \in {x \in subs : x.kind = "LaunchConfiguration"}}

\* C9: the eight names are declared by eight different actions, one each,
\* and every inclusion comes after the declaration of each argument its
\* bindings refer to; the visit never meets an argument that is not set.
C9_DeclaredOnceBeforeUse ==
    /\ Returned =>
          /\ \A n \in ArgNames : Cardinality(DeclarationsOf(result, n)) = 1
          /\ Cardinality({result[k].name : k \in Declarations(result)})
                = Cardinality(Declarations(result))
          /\ \A j \in Inclusions(result) :
                \A n \in Referenced(result[j]) :
                   \E d \in DeclarationsOf(result, n) : d < j
    /\ (pc = "visit" /\ i <= Len(result) /\ IsInclude(result[i])) =>
          \A n \in Referenced(result[i]) :
             /\ n \in DOMAIN launch_configurations
             /\ \E d \in DeclarationsOf(result, n) : d < i
    /\ pc # "error"

C9_Witness ==
    /\ pc = "visit"
    /\ i = 9
    /\ IsInclude(result[i])
    /\ argv = Empty
    /\ Referenced(result[i]) = BridgeKeys
    /\ DOMAIN launch_configurations = ArgNames

\* the override sets that differ from o in one argument outside keep
Variants(o, keep) ==
    {Bind(o, n, v) : n \in ArgNames \ keep, v \in Values}
       \cup {[x \in DOMAIN o \ {n} |-> o[x]] : n \in DOMAIN o \ keep}

\* C10: changing, adding or removing the override of one argument that is
\* not a server argument leaves what the server receives as it is, and the
\* same for an argument that is not a bridge argument and the bridge.  Two
\* override sets that agree on the arguments of an inclusion are joined by
\* a chain of such changes.
C10_Noninterference ==
    Done =>
       /\ Launch(result, argv) = [status |-> "done", received |-> received]
       /\ \A o \in Variants(argv, ServerKeys) :
             LET r == Launch(result, o)
             IN  r.status = "done" /\ r.received[Server] = received[Server]
       /\ \A o \in Variants(argv, BridgeKeys) :
             LET r == Launch(result, o)
             IN  r.status = "done" /\ r.received[Bridge] = received[Bridge]

C10_Witness ==
    /\ Done
    /\ DOMAIN argv = {"config_file", "world_sdf_file"}
    /\ argv["config_file"] = "robot1"
    /\ argv["world_sdf_file"] = "world.sdf"
    /\ ValuesOf(received[Server], "world_sdf_file") = {"world.sdf"}
    /\ ValuesOf(received[Bridge], "config_file") = {"robot1"}
    /\ Launch(result, [world_sdf_file |-> "world.sdf"]).received[Server] = received[Server]

====
